---- MODULE Spec2Model ----
(***************************************************************************)
(* StockWise Mobile: the stock ledger (stock_transactions table) and the   *)
(* product catalog's current_stock column, as mutated by                   *)
(* createStockTransaction and deleteTransaction of                         *)
(* src/database/queries/transactions.js.                                   *)
(*                                                                         *)
(* Both functions are async: every `await` is a point at which another     *)
(* caller's continuation may run, and every SQL statement is executed on   *)
(* its own (no db.transaction wrapper).  One action of the model is one    *)
(* statement against the store together with the synchronous JavaScript    *)
(* that follows it up to the next await.                                   *)
(*                                                                         *)
(* The query and aggregation functions of the same file are single SELECT  *)
(* statements; they are operators over the store and the catalog's         *)
(* pricing.  The start-up sequence of App.js is modelled alongside.        *)
(***************************************************************************)
EXTENDS Integers, Sequences, FiniteSets, TLC

\* ---------------------------------------------------------------- bounds
NumProcs == 2          \* concurrent callers (UI handlers) of the ledger
MaxTx == 2             \* ledger ids handed out in one behaviour
MaxQty == 2            \* largest quantity a caller passes
MaxNegQty == 1         \* magnitude of the most negative quantity a caller passes
MaxInitStock == 1      \* largest stock a product starts with
MaxTime == 3           \* ticks of the clock in one behaviour (two to a day)

Procs == 1..NumProcs
Products == {1}                     \* rows of the products table
ProductIds == Products \cup {2}     \* ids a caller may pass; 2 resolves to no row
Types == {"IN", "OUT", "ADJUST"}
Quantities == (0 - MaxNegQty)..MaxQty
TxIds == 1..MaxTx

NoRow == [id |-> 0]                 \* JavaScript null for a missing row
NoProduct == [id |-> 0]             \* JavaScript null for a missing product

\* ----------------------------------------------------------------- state
VARIABLES
  current_stock,   \* products.current_stock, per product id
  ledger,          \* stock_transactions, in insertion order
  nextId,          \* next id the ledger assigns
  pc,              \* per caller: the statement it is about to run
  args,            \* per caller: the arguments of its call
  loc,             \* per caller: the locals of its call
  base,            \* the store when the current round of calls began
  stock0,          \* the stock every product started with
  prev,            \* the store as the call before this one found it
  issued,          \* the ids the ledger has handed out, in order
  seen,            \* what the most recent read returned
  now,             \* the clock: the transaction_date a new row is given
  catalog,         \* products: prices and category, per product id
  answer,          \* what the most recent report or listing returned
  app              \* the App component: its state hooks and its start-up

vars ==
  <<current_stock, ledger, nextId, pc, args, loc, base, stock0, prev, issued,
    seen, now, catalog, answer, app>>

\* what createStockTransaction and deleteTransaction never touch
outside == <<now, catalog, answer, app>>

Store == [ledger |-> ledger, stock |-> current_stock, nextId |-> nextId]

NoRead == [product |-> NoProduct, rows |-> <<>>, taken |-> FALSE]
NoArgs == [op |-> "none", productId |-> 0, type |-> "IN", quantity |-> 0,
           notes |-> "", id |-> 0]
NoAnswer == [fn |-> "none"]
NoLoc == [product |-> NoProduct, newStock |-> 0, transaction |-> NoRow,
          insertId |-> 0, error |-> "none"]

InFlight(p) == pc[p] \notin {"idle", "done", "failed"}
Quiescent == \A p \in Procs : ~InFlight(p)

\* ------------------------------------------------- store access (helpers)
\* getProductById: the product row, or null
getProductById(stock, productId) ==
  IF productId \in DOMAIN stock
    THEN [id |-> productId, current_stock |-> stock[productId]]
    ELSE NoProduct

\* updateProductStock: UPDATE products SET current_stock = ? WHERE id = ?
updateProductStock(stock, productId, value) ==
  IF productId \in DOMAIN stock
    THEN [stock EXCEPT ![productId] = value]
    ELSE stock

\* getTransactionById: the row with that id, or null
getTransactionById(rows, id) ==
  IF \E i \in 1..Len(rows) : rows[i].id = id
    THEN rows[CHOOSE i \in 1..Len(rows) : rows[i].id = id]
    ELSE NoRow

\* faulty variant: the DELETE takes the later rows with it
DeleteRow_AndLater(rows, id) == SelectSeq(rows, LAMBDA r : r.id < id)

\* DELETE FROM stock_transactions WHERE id = ?
DeleteRow(rows, id) == SelectSeq(rows, LAMBDA r : r.id # id)

\* faulty variant: ADJUST treated as a delta instead of an absolute value
NewStock_AdjustAdds(type, stock, quantity) ==
  IF type = "IN" THEN stock + quantity
  ELSE IF type = "OUT" THEN stock - quantity
  ELSE IF type = "ADJUST" THEN stock + quantity
  ELSE stock

\* createStockTransaction lines 38-52: the new stock
NewStock(type, stock, quantity) ==
  IF type = "IN" THEN stock + quantity
  ELSE IF type = "OUT" THEN stock - quantity
  ELSE IF type = "ADJUST" THEN quantity
  ELSE stock

\* faulty variant: the overdraw test is off by one
InsufficientStock_OffByOne(type, stock, quantity) ==
  type = "OUT" /\ stock - quantity < -1

\* createStockTransaction lines 42-49: the overdraw test
InsufficientStock(type, stock, quantity) ==
  type = "OUT" /\ stock - quantity < 0

\* faulty variant: an IN is added back instead of taken out
RevertedStock_InAdds(type, stock, quantity) ==
  IF type = "IN" THEN stock + quantity
  ELSE IF type = "OUT" THEN stock + quantity
  ELSE stock

\* faulty variant: an ADJUST is reverted by taking its quantity out
RevertedStock_AdjustOut(type, stock, quantity) ==
  IF type = "IN" THEN stock - quantity
  ELSE IF type = "OUT" THEN stock + quantity
  ELSE stock - quantity

\* deleteTransaction lines 561-567: the reverted stock
RevertedStock(type, stock, quantity) ==
  IF type = "IN" THEN stock - quantity
  ELSE IF type = "OUT" THEN stock + quantity
  ELSE stock

\* faulty variant: a reverted stock of -1 passes
InvalidReversal_OffByOne(type, stock, quantity) ==
  RevertedStock(type, stock, quantity) < 0 - 1

\* deleteTransaction lines 569-572: the reverted stock may not be negative
InvalidReversal(type, stock, quantity) ==
  RevertedStock(type, stock, quantity) < 0

\* ------------------------------------------- the catalog and the App
\* the products the reports are about: 1 has a category, 2 has none
ReportProducts == {1, 2}

\* products.purchase_price, selling_price and category_id (0 for NULL)
DefaultCatalog ==
  [productId \in ReportProducts |->
     [purchase_price |-> 60, selling_price |-> 100,
      category_id |-> IF productId = 1 THEN 1 ELSE 0]]

\* App.js lines 26-34: the component is mounted: both state hooks are
\* false, the NavigationContainer has given navigationRef its value, and the
\* mount effect has called initializeApp, which awaits initDatabase
AppMounted ==
  [init |-> "initDatabase", isDbReady |-> FALSE, isNavigationReady |-> FALSE,
   navigationRef |-> TRUE,
   rendered |-> [isNavigationReady |-> FALSE, isDbReady |-> FALSE],
   effect |-> "none", handlerCalls |-> 0, events |-> <<>>]

\* ------------------------------------------------------------------ Init
Init ==
  /\ current_stock \in [Products -> 0..MaxInitStock]
  /\ ledger = <<>>
  /\ nextId = 1
  /\ pc = [p \in Procs |-> "idle"]
  /\ args = [p \in Procs |-> NoArgs]
  /\ loc = [p \in Procs |-> NoLoc]
  /\ base = [ledger |-> <<>>, stock |-> current_stock, nextId |-> 1]
  /\ stock0 = current_stock
  /\ prev = [ledger |-> <<>>, stock |-> current_stock, nextId |-> 1]
  /\ issued = <<>>
  /\ seen = NoRead
  /\ now = 1
  /\ catalog = DefaultCatalog
  /\ answer = NoAnswer
  /\ app = AppMounted

\* --------------------------------------------------------- call entry
RecordArgs ==
  [op : {"record"}, productId : ProductIds, type : Types,
   quantity : Quantities, notes : {""}, id : {0}]

DeleteArgs ==
  [op : {"delete"}, productId : {0}, type : {"IN"}, quantity : {0},
   notes : {""}, id : TxIds]

\* ids that calls already under way will still take from the ledger
PendingInserts ==
  Cardinality({q \in Procs : pc[q] \in {"r_getProduct", "r_insert"}})

FirstPc(a) == IF a.op = "record" THEN "r_getProduct" ELSE "d_getTransaction"

\* A caller enters createStockTransaction or deleteTransaction (up to the
\* first await).  A call that begins while no other call is under way opens
\* a new round: the callers of the previous round have received their
\* results, and base remembers the store the round starts from.
Begin(p, a) ==
  /\ a.op = "record" => nextId + PendingInserts <= MaxTx
  /\ IF Quiescent
       THEN /\ pc' = [q \in Procs |-> IF q = p THEN FirstPc(a) ELSE "idle"]
            /\ args' = [q \in Procs |-> IF q = p THEN a ELSE NoArgs]
            /\ loc' = [q \in Procs |-> NoLoc]
            /\ base' = Store
       ELSE /\ pc[p] = "idle"
            /\ pc' = [pc EXCEPT ![p] = FirstPc(a)]
            /\ args' = [args EXCEPT ![p] = a]
            /\ loc' = [loc EXCEPT ![p] = NoLoc]
            /\ base' = base
  /\ UNCHANGED <<current_stock, ledger, nextId, stock0, issued, seen>>
  /\ UNCHANGED outside

Enter(p, a) == Begin(p, a) /\ UNCHANGED prev

\* callers may overlap: a call may begin while others are awaiting
Start(p) == \E a \in RecordArgs \cup DeleteArgs : Enter(p, a)

\* one call at a time: a call begins only when no other is under way (which
\* caller issues it makes no difference then, so it is always the first)
StartAlone == \E a \in RecordArgs \cup DeleteArgs : Quiescent /\ Enter(1, a)

\* the calls the contract allows: no negative quantity
ValidRecordArgs == {a \in RecordArgs : a.quantity >= 0}

\* type is a free string in the code: any text may be passed
FreeTypes == Types \cup {"RETURN"}

FreeRecordArgs ==
  [op : {"record"}, productId : ProductIds, type : FreeTypes,
   quantity : Quantities, notes : {""}, id : {0}]

\* one call at a time, the type being whatever string the caller passes
StartAny == \E a \in FreeRecordArgs \cup DeleteArgs : Quiescent /\ Enter(1, a)

\* one valid call at a time, remembering the store the call before it found
StartAfter ==
  \E a \in ValidRecordArgs \cup DeleteArgs :
    Quiescent /\ Begin(1, a) /\ prev' = base

Throw(p, e) ==
  /\ pc' = [pc EXCEPT ![p] = "failed"]
  /\ loc' = [loc EXCEPT ![p].error = e]

\* -------------------------------------------- createStockTransaction
\* faulty variant: a missing product is taken for one with no stock
RecordGetProduct_Unchecked(p) ==
  /\ pc[p] = "r_getProduct"
  /\ LET product == getProductById(current_stock, args[p].productId)
         stock == IF product = NoProduct THEN 0 ELSE product.current_stock IN
       IF InsufficientStock(args[p].type, stock, args[p].quantity)
         THEN Throw(p, "InsufficientStock")
         ELSE /\ pc' = [pc EXCEPT ![p] = "r_insert"]
              /\ loc' = [loc EXCEPT ![p].product = product,
                           ![p].newStock =
                             NewStock(args[p].type, stock, args[p].quantity)]
  /\ UNCHANGED <<current_stock, ledger, nextId, args, base, stock0, prev, issued, seen>>
  /\ UNCHANGED outside

\* lines 32-52: read the product, compute newStock, refuse an overdraw
RecordGetProduct(p) ==
  /\ pc[p] = "r_getProduct"
  /\ LET product == getProductById(current_stock, args[p].productId) IN
       IF product = NoProduct
         THEN Throw(p, "ProductNotFound")
         ELSE IF InsufficientStock(args[p].type, product.current_stock,
                                   args[p].quantity)
           THEN Throw(p, "InsufficientStock")
           ELSE /\ pc' = [pc EXCEPT ![p] = "r_insert"]
                /\ loc' = [loc EXCEPT ![p].product = product,
                             ![p].newStock =
                               NewStock(args[p].type, product.current_stock,
                                        args[p].quantity)]
  /\ UNCHANGED <<current_stock, ledger, nextId, args, base, stock0, prev, issued, seen>>
  /\ UNCHANGED outside

\* faulty variant: balance_after takes the stock read, not the new stock
NewRow_OldBalance(p) ==
  [id |-> nextId, product_id |-> args[p].productId, type |-> args[p].type,
   quantity |-> args[p].quantity, notes |-> args[p].notes,
   balance_after |-> loc[p].product.current_stock, transaction_date |-> now]

\* lines 62-72: the values bound to the INSERT; the table gives the row its
\* id and, as transaction_date, the time of the insertion
NewRow(p) ==
  [id |-> nextId, product_id |-> args[p].productId, type |-> args[p].type,
   quantity |-> args[p].quantity, notes |-> args[p].notes,
   balance_after |-> loc[p].newStock, transaction_date |-> now]

\* faulty variant: the new row takes the number of rows plus one as its id
RecordInsert_RowCount(p) ==
  /\ pc[p] = "r_insert"
  /\ ledger' = Append(ledger, [NewRow(p) EXCEPT !.id = Len(ledger) + 1])
  /\ nextId' = nextId + 1
  /\ loc' = [loc EXCEPT ![p].insertId = Len(ledger) + 1]
  /\ issued' = Append(issued, Len(ledger) + 1)
  /\ pc' = [pc EXCEPT ![p] = "r_updateStock"]
  /\ UNCHANGED <<current_stock, args, base, stock0, prev, seen>>
  /\ UNCHANGED outside

\* lines 54-73: INSERT INTO stock_transactions; result.insertId is the id
\* the ledger gave the row
RecordInsert(p) ==
  /\ pc[p] = "r_insert"
  /\ ledger' = Append(ledger, NewRow(p))
  /\ nextId' = nextId + 1
  /\ loc' = [loc EXCEPT ![p].insertId = nextId]
  /\ issued' = Append(issued, nextId)
  /\ pc' = [pc EXCEPT ![p] = "r_updateStock"]
  /\ UNCHANGED <<current_stock, args, base, stock0, prev, seen>>
  /\ UNCHANGED outside

\* lines 75-76: updateProductStock(productId, newStock), then return
RecordUpdateStock(p) ==
  /\ pc[p] = "r_updateStock"
  /\ current_stock' =
       updateProductStock(current_stock, args[p].productId, loc[p].newStock)
  /\ pc' = [pc EXCEPT ![p] = "done"]
  /\ UNCHANGED <<ledger, nextId, args, loc, base, stock0, prev, issued, seen>>
  /\ UNCHANGED outside

\* lines 96-99: a persistence statement rejects; the error is rethrown and
\* nothing the call has already written is undone
StorageFailure(p) ==
  /\ pc[p] \in {"r_insert", "r_updateStock", "d_delete", "d_updateStock"}
  /\ Throw(p, "StorageFailure")
  /\ UNCHANGED <<current_stock, ledger, nextId, args, base, stock0, prev, issued, seen>>
  /\ UNCHANGED outside

\* ------------------------------------------------- deleteTransaction
\* lines 549-553: look the transaction up
DeleteGetTransaction(p) ==
  /\ pc[p] = "d_getTransaction"
  /\ LET transaction == getTransactionById(ledger, args[p].id) IN
       IF transaction = NoRow
         THEN Throw(p, "TransactionNotFound")
         ELSE /\ pc' = [pc EXCEPT ![p] = "d_getProduct"]
              /\ loc' = [loc EXCEPT ![p].transaction = transaction]
  /\ UNCHANGED <<current_stock, ledger, nextId, args, base, stock0, prev, issued, seen>>
  /\ UNCHANGED outside

\* faulty variant: a missing product is taken for one with no stock
DeleteGetProduct_Unchecked(p) ==
  /\ pc[p] = "d_getProduct"
  /\ LET transaction == loc[p].transaction
         product == getProductById(current_stock, transaction.product_id)
         stock == IF product = NoProduct THEN 0 ELSE product.current_stock IN
       IF InvalidReversal(transaction.type, stock, transaction.quantity)
         THEN Throw(p, "InvalidReversal")
         ELSE /\ pc' = [pc EXCEPT ![p] = "d_delete"]
              /\ loc' = [loc EXCEPT ![p].product = product,
                           ![p].newStock =
                             RevertedStock(transaction.type, stock,
                                           transaction.quantity)]
  /\ UNCHANGED <<current_stock, ledger, nextId, args, base, stock0, prev, issued, seen>>
  /\ UNCHANGED outside

\* lines 555-572: read the product, compute revertedStock, refuse a negative
DeleteGetProduct(p) ==
  /\ pc[p] = "d_getProduct"
  /\ LET transaction == loc[p].transaction
         product == getProductById(current_stock, transaction.product_id) IN
       IF product = NoProduct
         THEN Throw(p, "ProductNotFound")
         ELSE IF InvalidReversal(transaction.type, product.current_stock,
                                 transaction.quantity)
           THEN Throw(p, "InvalidReversal")
           ELSE /\ pc' = [pc EXCEPT ![p] = "d_delete"]
                /\ loc' = [loc EXCEPT ![p].product = product,
                             ![p].newStock =
                               RevertedStock(transaction.type,
                                             product.current_stock,
                                             transaction.quantity)]
  /\ UNCHANGED <<current_stock, ledger, nextId, args, base, stock0, prev, issued, seen>>
  /\ UNCHANGED outside

\* faulty variant: the DELETE also rewrites the balance_after of the later
\* rows of the product, as a cascading recompute would
DeleteDelete_Recompute(p) ==
  /\ pc[p] = "d_delete"
  /\ ledger' =
       LET transaction == loc[p].transaction
           left == DeleteRow(ledger, args[p].id) IN
         [i \in 1..Len(left) |->
            IF left[i].id > transaction.id
                 /\ left[i].product_id = transaction.product_id
              THEN [left[i] EXCEPT !.balance_after =
                      RevertedStock(transaction.type, left[i].balance_after,
                                    transaction.quantity)]
              ELSE left[i]]
  /\ pc' = [pc EXCEPT ![p] = "d_updateStock"]
  /\ UNCHANGED <<current_stock, nextId, args, loc, base, stock0, prev, issued, seen>>
  /\ UNCHANGED outside

\* lines 574-575: DELETE FROM stock_transactions WHERE id = ?
DeleteDelete(p) ==
  /\ pc[p] = "d_delete"
  /\ ledger' = DeleteRow(ledger, args[p].id)
  /\ pc' = [pc EXCEPT ![p] = "d_updateStock"]
  /\ UNCHANGED <<current_stock, nextId, args, loc, base, stock0, prev, issued, seen>>
  /\ UNCHANGED outside

\* lines 577-582: updateProductStock(product_id, revertedStock), then return
DeleteUpdateStock(p) ==
  /\ pc[p] = "d_updateStock"
  /\ current_stock' =
       updateProductStock(current_stock, loc[p].transaction.product_id,
                          loc[p].newStock)
  /\ pc' = [pc EXCEPT ![p] = "done"]
  /\ UNCHANGED <<ledger, nextId, args, loc, base, stock0, prev, issued, seen>>
  /\ UNCHANGED outside

\* ------------------------------------------------------------- reads
\* A reader issues the product lookup and the product's ledger query in one
\* synchronous block (as loadData does with Promise.all): the statements
\* run back to back against the store as it is at that point.
ProductRows(rows, productId) == SelectSeq(rows, LAMBDA r : r.product_id = productId)

Read(productId) ==
  /\ seen' = [product |-> getProductById(current_stock, productId),
              rows |-> ProductRows(ledger, productId), taken |-> TRUE]
  /\ UNCHANGED <<current_stock, ledger, nextId, pc, args, loc, base, stock0, prev, issued>>
  /\ UNCHANGED outside

\* ---------------------------------------------------- the query layer
\* the notes callers pass: the sale marker as the screens write it, the
\* same words typed in lower case, and another reason
Notes == {"Terjual - tunai", "terjual murah", "Rusak - pecah", ""}

\* the first seven characters of a note
Prefix(notes) ==
  CASE notes = "Terjual - tunai" -> "Terjual"
    [] notes = "terjual murah" -> "terjual"
    [] notes = "Rusak - pecah" -> "Rusak -"
    [] OTHER -> notes

\* SQLite folds the case of ASCII letters when it compares with LIKE
FoldCase(text) ==
  CASE text = "Terjual" -> "TERJUAL"
    [] text = "terjual" -> "TERJUAL"
    [] text = "Rusak -" -> "RUSAK -"
    [] OTHER -> text

\* faulty variant: every OUT row is taken for a sale
LikeTerjual_Any(notes) == TRUE

\* lines 383, 428, 464, 512: st.notes LIKE 'Terjual%'
LikeTerjual(notes) == FoldCase(Prefix(notes)) = FoldCase("Terjual")

\* ManagementScreen.js line 217: notes && notes.startsWith('Terjual')
StartsWithTerjual(notes) == notes # "" /\ Prefix(notes) = "Terjual"

\* DATE(st.transaction_date): the calendar day of a time; a day has two
\* ticks of the clock
DateOf(time) == (time + 1) \div 2

\* WHERE st.type = 'OUT' AND st.notes LIKE 'Terjual%'
IsSale(r) == r.type = "OUT" /\ LikeTerjual(r.notes)

\* AND DATE(st.transaction_date) >= DATE(?) AND ... <= DATE(?)
InWindow(r, startDate, endDate) ==
  /\ DateOf(r.transaction_date) >= startDate
  /\ DateOf(r.transaction_date) <= endDate

\* LEFT JOIN products p ON st.product_id = p.id: the product of a row, or
\* NULLs when it has none
ProductOf(products, r) ==
  IF r.product_id \in DOMAIN products
    THEN [found |-> TRUE, row |-> products[r.product_id]]
    ELSE [found |-> FALSE]

\* st.quantity * p.selling_price as SUM takes it: a NULL adds nothing
Revenue(products, r) ==
  LET p == ProductOf(products, r) IN
    IF p.found THEN r.quantity * p.row.selling_price ELSE 0

\* st.quantity * (p.selling_price - p.purchase_price), likewise
Profit(products, r) ==
  LET p == ProductOf(products, r) IN
    IF p.found
      THEN r.quantity * (p.row.selling_price - p.row.purchase_price)
      ELSE 0

\* SUM(...) over the first i rows; `|| 0` turns the NULL of no row into 0
RECURSIVE SumRevenue(_, _, _)
SumRevenue(products, rows, i) ==
  IF i = 0 THEN 0
  ELSE SumRevenue(products, rows, i - 1) + Revenue(products, rows[i])

RECURSIVE SumProfit(_, _, _)
SumProfit(products, rows, i) ==
  IF i = 0 THEN 0
  ELSE SumProfit(products, rows, i - 1) + Profit(products, rows[i])

\* the rows the three range queries select
SalesIn(rows, startDate, endDate) ==
  SelectSeq(rows, LAMBDA r : IsSale(r) /\ InWindow(r, startDate, endDate))

\* lines 416-443
getFinancialStatsByDateRange(rows, products, startDate, endDate) ==
  LET sales == SalesIn(rows, startDate, endDate) IN
    [totalRevenue |-> SumRevenue(products, sales, Len(sales)),
     totalProfit |-> SumProfit(products, sales, Len(sales)),
     transactionCount |-> Len(sales)]

\* lines 371-408; today is the calendar day of the clock
getFinancialStats(rows, products, time) ==
  LET sales == SelectSeq(rows, IsSale)
      today == SelectSeq(sales,
                 LAMBDA r : DateOf(r.transaction_date) = DateOf(time)) IN
    [totalRevenue |-> SumRevenue(products, sales, Len(sales)),
     totalProfit |-> SumProfit(products, sales, Len(sales)),
     todayRevenue |-> SumRevenue(products, today, Len(today)),
     todayProfit |-> SumProfit(products, today, Len(today))]

\* the members of a set of numbers in ascending order
RECURSIVE Ascending(_)
Ascending(S) ==
  IF S = {} THEN <<>>
  ELSE LET least == CHOOSE x \in S : \A y \in S : x <= y IN
         <<least>> \o Ascending(S \ {least})

\* one row of GROUP BY DATE(st.transaction_date)
DayRow(rows, products, date) ==
  LET sales == SelectSeq(rows, LAMBDA r : DateOf(r.transaction_date) = date) IN
    [date |-> date,
     revenue |-> SumRevenue(products, sales, Len(sales)),
     profit |-> SumProfit(products, sales, Len(sales)),
     transaction_count |-> Len(sales)]

\* faulty variant: the last day of the window is left out
getDailyFinancialBreakdown_Exclusive(rows, products, startDate, endDate) ==
  LET sales == SalesIn(rows, startDate, endDate - 1)
      days == Ascending({DateOf(sales[i].transaction_date) :
                           i \in 1..Len(sales)}) IN
    [k \in 1..Len(days) |-> DayRow(sales, products, days[k])]

\* lines 451-488: GROUP BY the day, ORDER BY the day ASC
getDailyFinancialBreakdown(rows, products, startDate, endDate) ==
  LET sales == SalesIn(rows, startDate, endDate)
      days == Ascending({DateOf(sales[i].transaction_date) :
                           i \in 1..Len(sales)}) IN
    [k \in 1..Len(days) |-> DayRow(sales, products, days[k])]

\* categories.id -> categories.name
Categories == [id \in {1} |-> "Makanan"]

\* LEFT JOIN categories c ON p.category_id = c.id: c.id, or 0 for the NULL
\* of a row without product, a product without category, a category gone
CategoryOf(products, r) ==
  LET p == ProductOf(products, r) IN
    IF p.found /\ p.row.category_id \in DOMAIN Categories
      THEN p.row.category_id
      ELSE 0

\* one row of GROUP BY c.id, c.name, c.icon, as lines 521-530 hand it on
CategoryRow(rows, products, id) ==
  LET sales == SelectSeq(rows, LAMBDA r : CategoryOf(products, r) = id) IN
    [category |-> IF id = 0 THEN "Tanpa Kategori" ELSE Categories[id],
     revenue |-> SumRevenue(products, sales, Len(sales)),
     profit |-> SumProfit(products, sales, Len(sales)),
     productCount |->
       Cardinality({sales[i].product_id : i \in 1..Len(sales)}),
     transactionCount |-> Len(sales)]

\* ORDER BY revenue DESC; SQL leaves the order of equal revenues open, so
\* either group may come first
RECURSIVE ByRevenue(_, _)
ByRevenue(S, lowFirst) ==
  IF S = {} THEN <<>>
  ELSE LET top == {x \in S : \A y \in S : x.row.revenue >= y.row.revenue}
           first == CHOOSE x \in top :
                      \A y \in top :
                        IF lowFirst THEN x.id <= y.id ELSE y.id <= x.id IN
         <<first.row>> \o ByRevenue(S \ {first}, lowFirst)

\* faulty variant: an inner join, which drops the rows without category
getCategoryFinancialBreakdown_Inner(rows, products, from, to, lowFirst) ==
  LET sales == SalesIn(rows, from, to)
      ids == {CategoryOf(products, sales[i]) : i \in 1..Len(sales)} \ {0} IN
    ByRevenue({[id |-> id, row |-> CategoryRow(sales, products, id)] :
                 id \in ids}, lowFirst)

\* lines 496-538
getCategoryFinancialBreakdown(rows, products, from, to, lowFirst) ==
  LET sales == SalesIn(rows, from, to)
      ids == {CategoryOf(products, sales[i]) : i \in 1..Len(sales)} IN
    ByRevenue({[id |-> id, row |-> CategoryRow(sales, products, id)] :
                 id \in ids}, lowFirst)

\* line 178: LIMIT 100
ListLimit == 100

Reverse(rows) == [i \in 1..Len(rows) |-> rows[Len(rows) + 1 - i]]

\* ORDER BY st.transaction_date DESC: the rows of the latest time first;
\* SQL leaves the order of rows of one time open, so they come as inserted
\* or the other way round
RECURSIVE ByDateDesc(_, _, _)
ByDateDesc(rows, times, oldFirst) ==
  IF times = {} THEN <<>>
  ELSE LET latest == CHOOSE t \in times : \A u \in times : u <= t
           group == SelectSeq(rows, LAMBDA r : r.transaction_date = latest) IN
         (IF oldFirst THEN group ELSE Reverse(group))
           \o ByDateDesc(rows, times \ {latest}, oldFirst)

\* LIMIT n
Limit(rows, n) == IF Len(rows) <= n THEN rows ELSE SubSeq(rows, 1, n)

\* faulty variant: the type filter is not applied
getAllTransactions_AnyType(rows, dateFrom, dateTo, type, oldFirst) ==
  LET found == SelectSeq(rows, LAMBDA r :
                 /\ dateFrom # 0 => DateOf(r.transaction_date) >= dateFrom
                 /\ dateTo # 0 => DateOf(r.transaction_date) <= dateTo)
      times == {found[i].transaction_date : i \in 1..Len(found)} IN
    Limit(ByDateDesc(found, times, oldFirst), ListLimit)

\* lines 145-192; a date of 0 and a type of "" are the falsy values for
\* which no condition is added
getAllTransactions(rows, dateFrom, dateTo, type, oldFirst) ==
  LET found == SelectSeq(rows, LAMBDA r :
                 /\ dateFrom # 0 => DateOf(r.transaction_date) >= dateFrom
                 /\ dateTo # 0 => DateOf(r.transaction_date) <= dateTo
                 /\ type # "" => r.type = type)
      times == {found[i].transaction_date : i \in 1..Len(found)} IN
    Limit(ByDateDesc(found, times, oldFirst), ListLimit)

\* ------------------------------------------------ the product catalog
\* The catalog removes a product between two calls; its ledger rows stay.
\* The callers have their results by then, and the next call finds the
\* store without the product.
RemoveProduct(productId) ==
  /\ Quiescent
  /\ productId \in DOMAIN current_stock
  /\ current_stock' =
       [o \in DOMAIN current_stock \ {productId} |-> current_stock[o]]
  /\ pc' = [q \in Procs |-> "idle"]
  /\ args' = [q \in Procs |-> NoArgs]
  /\ loc' = [q \in Procs |-> NoLoc]
  /\ base' = [Store EXCEPT !.stock = current_stock']
  /\ UNCHANGED <<ledger, nextId, stock0, prev, issued, seen>>
  /\ UNCHANGED outside

\* ------------------------------------------------------ specifications
Step(p) ==
  \/ RecordGetProduct(p)
  \/ RecordInsert(p)
  \/ RecordUpdateStock(p)
  \/ DeleteGetTransaction(p)
  \/ DeleteGetProduct(p)
  \/ DeleteDelete(p)
  \/ DeleteUpdateStock(p)

\* overlapping callers
Next ==
  \/ \E p \in Procs : Start(p)
  \/ \E p \in Procs : Step(p)

Spec == Init /\ [][Next]_vars

\* one call at a time
NextSeq ==
  \/ StartAlone
  \/ \E p \in Procs : Step(p)

SpecSeq == Init /\ [][NextSeq]_vars

\* one call at a time, any persistence statement of which may reject
NextFail ==
  \/ StartAlone
  \/ \E p \in Procs : Step(p)
  \/ \E p \in Procs : StorageFailure(p)

SpecFail == Init /\ [][NextFail]_vars

\* one call at a time, with a reader running at any point of it
NextRead ==
  \/ StartAlone
  \/ \E p \in Procs : Step(p)
  \/ \E productId \in Products : Read(productId)

SpecRead == Init /\ [][NextRead]_vars

\* one valid call after another, with the store before the previous call
NextHist ==
  \/ StartAfter
  \/ \E p \in Procs : Step(p)

SpecHist == Init /\ [][NextHist]_vars

\* one call at a time, the catalog removing products in between
NextRemove ==
  \/ StartAlone
  \/ \E p \in Procs : Step(p)
  \/ \E productId \in Products : RemoveProduct(productId)

SpecRemove == Init /\ [][NextRemove]_vars

\* one call at a time, with any string as the type
NextType ==
  \/ StartAny
  \/ \E p \in Procs : Step(p)

SpecType == Init /\ [][NextType]_vars


\* ------------------------------------------------ what the claims refer to
\* the effect a transaction of a type has on a balance, as the ledger's
\* contract words it: IN adds, OUT subtracts, ADJUST sets
Effect(type, balance, quantity) ==
  CASE type = "IN" -> balance + quantity
    [] type = "OUT" -> balance - quantity
    [] type = "ADJUST" -> quantity
    [] OTHER -> balance

\* the inverse a reversal applies: of an IN subtract, of an OUT add
Inverse(type, balance, quantity) ==
  CASE type = "IN" -> balance - quantity
    [] type = "OUT" -> balance + quantity
    [] OTHER -> balance

Ended(p) == pc[p] \in {"done", "failed"}

\* the calls of this round pass quantities the contract allows
ValidQuantities == \A p \in Procs : args[p].quantity >= 0

\* the store is as the current round found it
AtBase == ledger = base.ledger /\ current_stock = base.stock

\* the store is base with one row appended and that row's product set to
\* the row's balance_after
RecordApplied(p) ==
  /\ Len(ledger) = Len(base.ledger) + 1
  /\ SubSeq(ledger, 1, Len(base.ledger)) = base.ledger
  /\ ledger[Len(ledger)].product_id = args[p].productId
  /\ ledger[Len(ledger)].type = args[p].type
  /\ ledger[Len(ledger)].quantity = args[p].quantity
  /\ current_stock =
       [base.stock EXCEPT ![args[p].productId] = ledger[Len(ledger)].balance_after]

\* the store is base without the row of that id and with the row's product
\* set to the inverse of the row applied to the stock base had
RevertApplied(p) ==
  LET transaction == getTransactionById(base.ledger, args[p].id) IN
    /\ transaction # NoRow
    /\ ledger = DeleteRow(base.ledger, args[p].id)
    /\ current_stock =
         [base.stock EXCEPT ![transaction.product_id] =
            Inverse(transaction.type, base.stock[transaction.product_id],
                    transaction.quantity)]

\* C1: once a record call has ended, by returning or by throwing, the store
\* holds both its ledger row and its stock update, or neither of them.
C1_RecordAllOrNothing ==
  \A p \in Procs :
    (args[p].op = "record" /\ args[p].quantity >= 0 /\ Ended(p)) =>
      (AtBase \/ RecordApplied(p))

\* the transaction a revert names, if there is one, has a quantity the
\* contract allows
TargetValid(p) ==
  LET transaction == getTransactionById(base.ledger, args[p].id) IN
    transaction = NoRow \/ transaction.quantity >= 0

\* C9: once a revert has ended, by returning or by throwing, either the row
\* is gone and the stock is reverted, or the row is there and the stock is
\* what it was.
C9_RevertAllOrNothing ==
  \A p \in Procs :
    (args[p].op = "delete" /\ Ended(p) /\ TargetValid(p)) =>
      (AtBase \/ RevertApplied(p))


\* ---------------------------------------------------- overlapping calls
RECURSIVE SumOver(_, _)
SumOver(S, f) ==
  IF S = {} THEN 0
  ELSE LET x == CHOOSE y \in S : TRUE IN f[x] + SumOver(S \ {x}, f)

\* the quantities of the calls of this round that returned
TakenOut == SumOver({p \in Procs : pc[p] = "done"},
                    [p \in Procs |-> args[p].quantity])

\* every caller has issued an OUT against that product in this round
AllOut(productId) ==
  \A p \in Procs :
    args[p].op = "record" /\ args[p].type = "OUT" /\ args[p].productId = productId

\* C2: OUT calls issued concurrently against one product do not jointly
\* overdraw it: the quantities of those that succeed sum to at most the stock
\* the product had before them, and no row has a negative balance_after.
C2_NoJointOverdraw ==
  \A productId \in Products :
    (Quiescent /\ AllOut(productId)) =>
      /\ TakenOut <= base.stock[productId]
      /\ \A i \in 1..Len(ledger) : ledger[i].balance_after >= 0

\* a call run on its own from start to end, no other call in between
RunAlone(store, a) ==
  IF a.op = "record"
    THEN LET product == getProductById(store.stock, a.productId) IN
      IF product = NoProduct
           \/ InsufficientStock(a.type, product.current_stock, a.quantity)
        THEN store
        ELSE LET newStock == NewStock(a.type, product.current_stock, a.quantity) IN
          [ledger |-> Append(store.ledger,
                       [id |-> store.nextId, product_id |-> a.productId,
                        type |-> a.type, quantity |-> a.quantity,
                        notes |-> a.notes, balance_after |-> newStock,
                        transaction_date |-> now]),
           stock |-> updateProductStock(store.stock, a.productId, newStock),
           nextId |-> store.nextId + 1]
    ELSE LET transaction == getTransactionById(store.ledger, a.id) IN
      IF transaction = NoRow THEN store
      ELSE LET product == getProductById(store.stock, transaction.product_id) IN
        IF product = NoProduct
             \/ InvalidReversal(transaction.type, product.current_stock,
                                transaction.quantity)
          THEN store
          ELSE [ledger |-> DeleteRow(store.ledger, a.id),
                stock |-> updateProductStock(store.stock, transaction.product_id,
                            RevertedStock(transaction.type, product.current_stock,
                                          transaction.quantity)),
                nextId |-> store.nextId]

RECURSIVE RunInOrder(_, _, _)
RunInOrder(store, order, i) ==
  IF i > Len(order) THEN store
  ELSE RunInOrder(RunAlone(store, args[order[i]]), order, i + 1)

\* ------------------------------------------------- reports and lists
\* enough stock for every sale of a behaviour
AmpleStock == 3 * MaxTx

\* the calendar days of a behaviour
Days == 1..DateOf(MaxTime)

\* createStockTransaction(productId, type, quantity, notes)
Movement(productId, type, quantity, notes) ==
  [op |-> "record", productId |-> productId, type |-> type,
   quantity |-> quantity, notes |-> notes, id |-> 0]

\* the records behind the reports: a sale of each product, a sale with the
\* marker in lower case, an OUT for another reason, and an IN with the marker
ReportArgs ==
  {Movement(1, "OUT", 2, "Terjual - tunai"),
   Movement(2, "OUT", 3, "Terjual - tunai"),
   Movement(1, "OUT", 2, "terjual murah"),
   Movement(2, "OUT", 3, "Rusak - pecah"),
   Movement(1, "IN", 2, "Terjual - tunai")}

\* the records behind the listing
ListArgs ==
  [op : {"record"}, productId : Products, type : {"IN", "OUT"},
   quantity : {1}, notes : {""}, id : {0}]

\* A whole createStockTransaction or deleteTransaction, no other call being
\* under way: all its statements, one after another.  The results of the
\* reads before it are with their callers.
Call(a) ==
  /\ Quiescent
  /\ a.op = "record" => Len(issued) < MaxTx
  /\ LET after == RunAlone(Store, a) IN
       /\ ledger' = after.ledger
       /\ current_stock' = after.stock
       /\ nextId' = after.nextId
       /\ issued' = IF after.nextId = nextId THEN issued
                    ELSE Append(issued, nextId)
  /\ answer' = NoAnswer
  /\ seen' = NoRead
  /\ UNCHANGED <<pc, args, loc, base, stock0, prev, now, catalog, app>>

\* time passes
Tick ==
  /\ now < MaxTime
  /\ now' = now + 1
  /\ answer' = NoAnswer
  /\ seen' = NoRead
  /\ UNCHANGED <<current_stock, ledger, nextId, pc, args, loc, base, stock0,
                 prev, issued, catalog, app>>

\* the selling prices the catalog may give a product
SellingPrices == {100, 120}

\* the catalog changes the selling price of a product
SetPrice(productId, price) ==
  /\ productId \in DOMAIN catalog
  /\ price # catalog[productId].selling_price
  /\ catalog' = [catalog EXCEPT ![productId].selling_price = price]
  /\ answer' = NoAnswer
  /\ UNCHANGED <<current_stock, ledger, nextId, pc, args, loc, base, stock0,
                 prev, issued, seen, now, app>>

\* ManagementScreen.js lines 2017-2041 and transactions.js lines 371-538:
\* the financial figures of one window, each from one SELECT
Report(startDate, endDate, lowFirst) ==
  /\ answer' =
       [fn |-> "report", startDate |-> startDate, endDate |-> endDate,
        stats |-> getFinancialStats(ledger, catalog, now),
        range |->
          getFinancialStatsByDateRange(ledger, catalog, startDate, endDate),
        daily |->
          getDailyFinancialBreakdown(ledger, catalog, startDate, endDate),
        categories |->
          getCategoryFinancialBreakdown(ledger, catalog, startDate, endDate,
                                        lowFirst)]
  /\ UNCHANGED <<current_stock, ledger, nextId, pc, args, loc, base, stock0,
                 prev, issued, seen, now, catalog, app>>

\* faulty variant: the listing marks the rows it returns
List_Marking(dateFrom, dateTo, type, oldFirst) ==
  /\ answer' =
       [fn |-> "list", dateFrom |-> dateFrom, dateTo |-> dateTo,
        type |-> type,
        rows |-> getAllTransactions(ledger, dateFrom, dateTo, type, oldFirst)]
  /\ ledger' = [i \in 1..Len(ledger) |->
                 IF \E k \in 1..Len(answer'.rows) :
                      answer'.rows[k].id = ledger[i].id
                   THEN [ledger[i] EXCEPT !.notes = "Rusak - pecah"]
                   ELSE ledger[i]]
  /\ UNCHANGED <<current_stock, nextId, pc, args, loc, base, stock0, prev,
                 issued, seen, now, catalog, app>>

\* transactions.js lines 145-192: getAllTransactions(dateFrom, dateTo, type)
List(dateFrom, dateTo, type, oldFirst) ==
  /\ answer' =
       [fn |-> "list", dateFrom |-> dateFrom, dateTo |-> dateTo,
        type |-> type,
        rows |-> getAllTransactions(ledger, dateFrom, dateTo, type, oldFirst)]
  /\ UNCHANGED <<current_stock, ledger, nextId, pc, args, loc, base, stock0,
                 prev, issued, seen, now, catalog, app>>

\* the store of the reports: two products with ample stock
InitReport ==
  /\ current_stock = [productId \in ReportProducts |-> AmpleStock]
  /\ ledger = <<>>
  /\ nextId = 1
  /\ pc = [p \in Procs |-> "idle"]
  /\ args = [p \in Procs |-> NoArgs]
  /\ loc = [p \in Procs |-> NoLoc]
  /\ base = [ledger |-> <<>>, stock |-> current_stock, nextId |-> 1]
  /\ stock0 = current_stock
  /\ prev = [ledger |-> <<>>, stock |-> current_stock, nextId |-> 1]
  /\ issued = <<>>
  /\ seen = NoRead
  /\ now = 1
  /\ catalog = DefaultCatalog
  /\ answer = NoAnswer
  /\ app = AppMounted

\* records, reverts and reports, one at a time
NextReport ==
  \/ \E a \in ReportArgs \cup DeleteArgs : Call(a)
  \/ Tick
  \/ \E startDate \in Days : \E endDate \in startDate..DateOf(MaxTime) :
       \E lowFirst \in BOOLEAN : Report(startDate, endDate, lowFirst)

SpecReport == InitReport /\ [][NextReport]_vars

\* the same, the catalog changing prices in between
NextPrice ==
  \/ \E a \in ReportArgs : Call(a)
  \/ Tick
  \/ \E price \in SellingPrices : SetPrice(1, price)
  \/ \E startDate \in Days : \E endDate \in startDate..DateOf(MaxTime) :
       \E lowFirst \in BOOLEAN : Report(startDate, endDate, lowFirst)

SpecPrice == InitReport /\ [][NextPrice]_vars

\* a ledger one row short of the limit of the listing: INs and OUTs of 1 in
\* turn, spread over the ticks up to now
History ==
  [i \in 1..(ListLimit - 1) |->
     [id |-> i, product_id |-> 1, type |-> IF i % 2 = 1 THEN "IN" ELSE "OUT",
      quantity |-> 1, notes |-> "", balance_after |-> i % 2,
      transaction_date |-> 1 + (i * MaxTime) \div ListLimit]]

InitList ==
  /\ current_stock = [productId \in Products |-> 1]
  /\ ledger = History
  /\ nextId = ListLimit
  /\ pc = [p \in Procs |-> "idle"]
  /\ args = [p \in Procs |-> NoArgs]
  /\ loc = [p \in Procs |-> NoLoc]
  /\ base = [ledger |-> History, stock |-> current_stock, nextId |-> ListLimit]
  /\ stock0 = [productId \in Products |-> 0]
  /\ prev = base
  /\ issued = <<>>
  /\ seen = NoRead
  /\ now = MaxTime
  /\ catalog = DefaultCatalog
  /\ answer = NoAnswer
  /\ app = AppMounted

\* records and the readers, one at a time, on a long ledger
NextList ==
  \/ \E a \in ListArgs : Call(a)
  \/ \E dateFrom, dateTo \in {0} \cup Days : \E type \in {"", "IN", "OUT"} :
       \E oldFirst \in BOOLEAN : List(dateFrom, dateTo, type, oldFirst)
  \/ \E productId \in Products : Read(productId)
  \/ \E startDate \in Days : \E endDate \in startDate..DateOf(MaxTime) :
       \E lowFirst \in BOOLEAN : Report(startDate, endDate, lowFirst)

SpecList == InitList /\ [][NextList]_vars

\* ------------------------------------------------------ App start-up
\* the awaits of initializeApp in their order (App.js lines 49, 54, 58, 63)
AfterAwait(init, permissionGranted) ==
  CASE init = "initDatabase" -> "initializeNotifications"
    [] init = "initializeNotifications" -> "requestNotificationPermission"
    [] init = "requestNotificationPermission" ->
         IF permissionGranted THEN "setupDailyChecks" ELSE "done"
    [] init = "setupDailyChecks" -> "done"

\* the rest of App while initializeApp goes on
AppUnchanged ==
  UNCHANGED <<current_stock, ledger, nextId, pc, args, loc, base, stock0,
              prev, issued, seen, now, catalog, answer>>

\* lines 45-67: the call initializeApp awaits resolves and it goes on to the
\* next await; after initDatabase it sets isDbReady
AwaitResolves(permissionGranted) ==
  /\ app.init \notin {"done", "failed"}
  /\ app' = [app EXCEPT
       !.init = AfterAwait(app.init, permissionGranted),
       !.isDbReady = IF app.init = "initDatabase" THEN TRUE ELSE @,
       !.events = IF app.init = "initDatabase"
                    THEN Append(@, "database") ELSE @]
  /\ AppUnchanged

\* lines 68-70: the call initializeApp awaits rejects; the error is logged
AwaitRejects ==
  /\ app.init \notin {"done", "failed"}
  /\ app' = [app EXCEPT !.init = "failed"]
  /\ AppUnchanged

\* lines 73-76: the NavigationContainer calls onReady
onNavigationReady ==
  /\ ~app.isNavigationReady
  /\ app' = [app EXCEPT !.isNavigationReady = TRUE,
                        !.events = Append(@, "navigation")]
  /\ AppUnchanged

\* React renders App again with the state set since the last render, the
\* effects of that render having run; a dependency of the effect of lines
\* 37-42 has changed, so the effect is to run
Render ==
  /\ app.effect = "none"
  /\ app.rendered # [isNavigationReady |-> app.isNavigationReady,
                     isDbReady |-> app.isDbReady]
  /\ app' = [app EXCEPT
       !.rendered = [isNavigationReady |-> app.isNavigationReady,
                     isDbReady |-> app.isDbReady],
       !.effect = "pending"]
  /\ AppUnchanged

\* faulty variant: the handler is set up as soon as the database is ready
HandlerEffect_DatabaseOnly ==
  /\ app.effect = "pending"
  /\ app' = [app EXCEPT
       !.effect = "none",
       !.handlerCalls =
         IF app.rendered.isDbReady /\ app.navigationRef THEN @ + 1 ELSE @]
  /\ AppUnchanged

\* lines 37-42: the effect runs with the state of its render
HandlerEffect ==
  /\ app.effect = "pending"
  /\ app' = [app EXCEPT
       !.effect = "none",
       !.handlerCalls =
         IF /\ app.rendered.isNavigationReady
            /\ app.rendered.isDbReady
            /\ app.navigationRef
           THEN @ + 1 ELSE @]
  /\ AppUnchanged

\* App starts
NextApp ==
  \/ \E permissionGranted \in BOOLEAN : AwaitResolves(permissionGranted)
  \/ AwaitRejects
  \/ onNavigationReady
  \/ Render
  \/ HandlerEffect

\* React renders after a state is set and runs the effects of a render
SpecApp ==
  Init /\ [][NextApp]_vars /\ WF_vars(Render) /\ WF_vars(HandlerEffect)

\* the callers of this round, and the orders they could have run in
Callers == {p \in Procs : args[p].op # "none"}
Orders ==
  {o \in [1..Cardinality(Callers) -> Callers] :
     \A i, j \in 1..Cardinality(Callers) : i # j => o[i] # o[j]}

\* a row without its id, and how often a ledger holds it
Fields(r) == [product_id |-> r.product_id, type |-> r.type,
              quantity |-> r.quantity, balance_after |-> r.balance_after]
Count(rows, f) == Cardinality({i \in 1..Len(rows) : Fields(rows[i]) = f})
SameRows(a, b) ==
  /\ Len(a) = Len(b)
  /\ \A i \in 1..Len(a) : Count(a, Fields(a[i])) = Count(b, Fields(a[i]))

\* C3: whatever the interleaving of the calls of a round, the stock and the
\* ledger rows (with their balance_after) they leave are those of running the
\* same calls one after another in some order.
C3_Serialised ==
  (Quiescent /\ ValidQuantities) =>
    \E o \in Orders :
      LET serial == RunInOrder(base, o, 1) IN
        /\ current_stock = serial.stock
        /\ SameRows(ledger, serial.ledger)


\* ------------------------------------------------------ one call at a time
\* C4: whatever calls have been made, no product's stock is negative.
C4_StockNeverNegative ==
  \A productId \in Products : current_stock[productId] >= 0

\* a caller's call is an OUT of more than the product holds
Overdraws(p) ==
  /\ args[p].op = "record"
  /\ args[p].type = "OUT"
  /\ args[p].productId \in Products
  /\ args[p].quantity > base.stock[args[p].productId]

\* C5: an OUT of more than the product's current_stock fails with the
\* insufficient-stock error and writes nothing: no ledger row, same stock.
C5_OverdrawRejected ==
  \A p \in Procs :
    Overdraws(p) =>
      /\ AtBase
      /\ nextId = base.nextId
      /\ pc[p] \in {"r_getProduct", "failed"}
      /\ pc[p] = "failed" => loc[p].error = "InsufficientStock"

C5_Witness ==
  \E p \in Procs :
    /\ Overdraws(p)
    /\ pc[p] = "failed"
    /\ args[p].quantity > 0
    /\ base.stock[args[p].productId] > 0
    /\ Len(ledger) > 0

\* C6: a record call that succeeds on a product holding s writes exactly one
\* new row, whose balance_after is s + quantity (IN), s - quantity (OUT) or
\* quantity (ADJUST), and leaves current_stock at that value.
C6_RecordEffect ==
  \A p \in Procs :
    (args[p].op = "record" /\ pc[p] = "done") =>
      LET productId == args[p].productId
          newStock == Effect(args[p].type, base.stock[productId], args[p].quantity)
      IN /\ ledger = Append(base.ledger,
                       [id |-> loc[p].insertId, product_id |-> productId,
                        type |-> args[p].type, quantity |-> args[p].quantity,
                        notes |-> args[p].notes, balance_after |-> newStock,
                        transaction_date |-> now])
         /\ current_stock = [base.stock EXCEPT ![productId] = newStock]
         /\ \A i \in 1..Len(base.ledger) : base.ledger[i].id # loc[p].insertId

C6_Witness ==
  \E p \in Procs :
    /\ args[p].op = "record"
    /\ pc[p] = "done"
    /\ args[p].type = "ADJUST"
    /\ args[p].quantity = 2
    /\ base.stock[args[p].productId] = 1
    /\ Len(ledger) = 2

\* the running total after the first i rows, from the stock s
RECURSIVE Replay(_, _, _)
Replay(rows, s, i) ==
  IF i = 0 THEN s
  ELSE Effect(rows[i].type, Replay(rows, s, i - 1), rows[i].quantity)

\* no row has been deleted: every id handed out is still in the ledger
NoReversal == Len(ledger) = nextId - 1

\* C7: with only committed record calls behind it, a product's ledger replays
\* from its initial stock to each row's balance_after in turn, and ends at
\* the product's current_stock.
C7_BalanceInvariant ==
  (Quiescent /\ NoReversal) =>
    \A productId \in Products :
      LET rows == ProductRows(ledger, productId) IN
        /\ \A i \in 1..Len(rows) :
             Replay(rows, stock0[productId], i) = rows[i].balance_after
        /\ Replay(rows, stock0[productId], Len(rows)) = current_stock[productId]

C7_Witness ==
  /\ Quiescent
  /\ NoReversal
  /\ Len(ledger) = 2
  /\ ledger[1].type = "ADJUST"
  /\ ledger[2].type = "OUT"
  /\ ledger[2].quantity = 1
  /\ current_stock[1] = 1

\* C8: whenever no call is under way, replaying the rows a product still has
\* from its initial stock gives the product's current_stock.
C8_LedgerMatchesStock ==
  Quiescent =>
    \A productId \in Products :
      LET rows == ProductRows(ledger, productId) IN
        Replay(rows, stock0[productId], Len(rows)) = current_stock[productId]


\* ------------------------------------------------------------ readers
\* what a read of that product returns from a store
View(store, productId) ==
  [product |-> getProductById(store.stock, productId),
   rows |-> ProductRows(store.ledger, productId), taken |-> TRUE]

\* C10: a read that runs while a record or revert is under way returns the
\* store as it was before that call or as it is after the whole call, never
\* a row without its stock update or a deletion without its stock revert.
C10_ReadsSeeWholeCalls ==
  [][seen' # seen =>
       \A p \in Procs : \A productId \in Products :
         (InFlight(p) /\ args[p].quantity >= 0 /\ seen'.product.id = productId) =>
           \/ seen' = View(base, productId)
           \/ seen' = View(RunAlone(base, args[p]), productId)]_vars


\* ---------------------------------------------------------- reversals
\* every caller of this round has asked to revert that transaction, which
\* the ledger held when the round began
AllRevert(id) ==
  /\ \A p \in Procs : args[p].op = "delete" /\ args[p].id = id
  /\ getTransactionById(base.ledger, id) # NoRow

\* C11: of the reverts of one transaction, however they interleave, at most
\* one succeeds, the others fail with the transaction-not-found error, and
\* the stock takes the inverse of the transaction once.
C11_RevertedOnce ==
  \A id \in TxIds :
    (Quiescent /\ AllRevert(id)) =>
      LET transaction == getTransactionById(base.ledger, id)
          succeeded == {p \in Procs : pc[p] = "done"}
      IN /\ Cardinality(succeeded) <= 1
         /\ succeeded # {} =>
              /\ \A p \in Procs \ succeeded :
                   loc[p].error = "TransactionNotFound"
              /\ current_stock[transaction.product_id] =
                   Inverse(transaction.type,
                           base.stock[transaction.product_id],
                           transaction.quantity)


\* the call before this one recorded a transaction: it took the id that
\* was next, and the store this call found holds its row
JustRecorded == base.nextId = prev.nextId + 1

\* caller p reverts the IN that the call before it recorded
RevertsLastIn(p) ==
  /\ args[p].op = "delete"
  /\ JustRecorded
  /\ args[p].id = prev.nextId
  /\ getTransactionById(base.ledger, args[p].id).type = "IN"

\* C12: a record of IN q followed at once by the revert of that transaction
\* is the identity: the revert succeeds (the product's stock before the
\* record being no debt), the stock of every product is what it was before
\* the record, and the ledger is the ledger before the record.
C12_RecordThenRevert ==
  \A p \in Procs :
    RevertsLastIn(p) =>
      LET transaction == getTransactionById(base.ledger, args[p].id) IN
        /\ (Ended(p) /\ prev.stock[transaction.product_id] >= 0) =>
             pc[p] = "done"
        /\ pc[p] = "done" =>
             /\ current_stock = prev.stock
             /\ ledger = prev.ledger

C12_Witness ==
  \E p \in Procs :
    /\ RevertsLastIn(p)
    /\ pc[p] = "done"
    /\ getTransactionById(base.ledger, args[p].id).quantity > 0
    /\ current_stock = prev.stock
    /\ base.stock # prev.stock


\* caller p reverts the transaction that the call before it recorded, the
\* most recently applied one of its product
RevertsLast(p) ==
  /\ args[p].op = "delete"
  /\ JustRecorded
  /\ args[p].id = prev.nextId

\* C13: a successful revert of the most recently applied transaction of a
\* product leaves the product's stock at what it was immediately before
\* that transaction was recorded.
C13_RevertLatestAccurate ==
  \A p \in Procs :
    (RevertsLast(p) /\ pc[p] = "done") =>
      LET transaction == getTransactionById(base.ledger, args[p].id) IN
        current_stock[transaction.product_id] =
          prev.stock[transaction.product_id]


\* the ledger this round found holds a later row of the same product than
\* the one caller p reverts
HasLater(p) ==
  \E i, j \in 1..Len(base.ledger) :
    /\ i < j
    /\ base.ledger[i].id = args[p].id
    /\ base.ledger[j].product_id = base.ledger[i].product_id

\* C14: a successful revert of a transaction that is not the latest of its
\* product removes that row alone, every other row staying as it was with
\* its balance_after, and (for IN and OUT) moves the live stock by the
\* inverse of the reverted quantity.
C14_RevertNotLatest ==
  \A p \in Procs :
    (args[p].op = "delete" /\ pc[p] = "done" /\ HasLater(p)) =>
      LET transaction == getTransactionById(base.ledger, args[p].id) IN
        /\ Len(ledger) = Len(base.ledger) - 1
        /\ \A i \in 1..Len(base.ledger) :
             base.ledger[i].id # args[p].id =>
               \E j \in 1..Len(ledger) : ledger[j] = base.ledger[i]
        /\ \A j \in 1..Len(ledger) : ledger[j].id # args[p].id
        /\ transaction.type \in {"IN", "OUT"} =>
             current_stock[transaction.product_id] =
               Inverse(transaction.type,
                       base.stock[transaction.product_id],
                       transaction.quantity)
        /\ \A o \in DOMAIN current_stock \ {transaction.product_id} :
             current_stock[o] = base.stock[o]

\* an IN reverted under a later row, whose balance_after is now stale
C14_Witness ==
  \E p \in Procs :
    /\ args[p].op = "delete" /\ pc[p] = "done" /\ HasLater(p)
    /\ getTransactionById(base.ledger, args[p].id).type = "IN"
    /\ getTransactionById(base.ledger, args[p].id).quantity > 0
    /\ Len(ledger) > 0
    /\ ledger[Len(ledger)].balance_after
         # current_stock[ledger[Len(ledger)].product_id]


\* caller p reverts a transaction of this round's ledger whose inverse
\* would take the product's stock below zero
RevertOverdraws(p) ==
  LET transaction == getTransactionById(base.ledger, args[p].id) IN
    /\ args[p].op = "delete"
    /\ transaction # NoRow
    /\ transaction.product_id \in DOMAIN base.stock
    /\ Inverse(transaction.type, base.stock[transaction.product_id],
               transaction.quantity) < 0

\* C15: a revert whose reverted stock would be negative fails with the
\* invalid-reversal error and mutates nothing: the row remains and the
\* stock is unchanged.
C15_InvalidReversalRejected ==
  \A p \in Procs :
    RevertOverdraws(p) =>
      /\ pc[p] # "done"
      /\ pc[p] = "failed" => loc[p].error = "InvalidReversal"
      /\ AtBase
      /\ getTransactionById(ledger, args[p].id) # NoRow

\* an IN of q reverted when the stock is below q
C15_Witness ==
  \E p \in Procs :
    LET transaction == getTransactionById(base.ledger, args[p].id) IN
      /\ RevertOverdraws(p)
      /\ pc[p] = "failed"
      /\ transaction.type = "IN"
      /\ transaction.quantity > 0
      /\ base.stock[transaction.product_id] >= 0
      /\ base.stock[transaction.product_id] < transaction.quantity


\* C16: a revert of an id that the ledger does not hold fails with the
\* transaction-not-found error, and a revert of a transaction whose product
\* is no longer there fails with the product-not-found error; neither
\* deletes a row or changes a stock.
C16_RevertNotFound ==
  \A p \in Procs :
    args[p].op = "delete" =>
      LET transaction == getTransactionById(base.ledger, args[p].id) IN
        /\ transaction = NoRow =>
             /\ pc[p] # "done"
             /\ pc[p] = "failed" => loc[p].error = "TransactionNotFound"
             /\ AtBase
        /\ (/\ transaction # NoRow
            /\ transaction.product_id \notin DOMAIN base.stock) =>
             /\ pc[p] # "done"
             /\ pc[p] = "failed" => loc[p].error = "ProductNotFound"
             /\ AtBase

\* a revert that failed because the product of its transaction was removed
C16_Witness ==
  \E p \in Procs :
    LET transaction == getTransactionById(base.ledger, args[p].id) IN
      /\ args[p].op = "delete"
      /\ pc[p] = "failed"
      /\ transaction # NoRow
      /\ transaction.product_id \notin DOMAIN base.stock
      /\ ledger = base.ledger


\* caller p records for a product id that resolves to no product
RecordsUnknown(p) ==
  /\ args[p].op = "record"
  /\ args[p].productId \notin DOMAIN base.stock

\* C17: a record whose productId resolves to no product fails with the
\* product-not-found error, writes no ledger row (and takes no id) and
\* changes no stock.
C17_RecordProductNotFound ==
  \A p \in Procs :
    RecordsUnknown(p) =>
      /\ pc[p] # "done"
      /\ pc[p] = "failed" => loc[p].error = "ProductNotFound"
      /\ AtBase
      /\ nextId = base.nextId

\* such a record has failed, for a product that was removed
C17_Witness ==
  \E p \in Procs :
    /\ RecordsUnknown(p)
    /\ pc[p] = "failed"
    /\ args[p].productId \in Products
    /\ ledger = base.ledger


\* ------------------------------------------------- argument validation
\* C18: a record with a negative quantity, of whichever type, is rejected
\* and leaves the stock and the ledger unchanged.
C18_NegativeQuantityRejected ==
  \A p \in Procs :
    (args[p].op = "record" /\ args[p].quantity < 0) =>
      /\ pc[p] # "done"
      /\ AtBase


\* C19: a record whose type is none of IN, OUT, ADJUST is rejected, writing
\* no row and changing no stock, so that every ledger row has one of the
\* three types (stated for the quantities the contract allows).
C19_TypeChecked ==
  /\ \A p \in Procs :
       (/\ args[p].op = "record"
        /\ args[p].type \notin Types
        /\ args[p].quantity >= 0) =>
         /\ pc[p] # "done"
         /\ AtBase
  /\ \A i \in 1..Len(ledger) :
       ledger[i].quantity >= 0 => ledger[i].type \in Types


WithoutRow(rows, i) ==
  [j \in 1..(Len(rows) - 1) |-> IF j < i THEN rows[j] ELSE rows[j + 1]]

\* C21: a committed row is never updated: a step leaves the ledger as it
\* is, or a record appends one row to it, or a revert takes the row it
\* targets out of it; every other row keeps all its fields.
C21_RowsNeverUpdated ==
  [][\/ ledger' = ledger
     \/ /\ Len(ledger') = Len(ledger) + 1
        /\ SubSeq(ledger', 1, Len(ledger)) = ledger
        /\ \E p \in Procs : args[p].op = "record" /\ pc[p] = "r_insert"
     \/ \E p \in Procs : \E i \in 1..Len(ledger) :
          /\ args[p].op = "delete" /\ pc[p] = "d_delete"
          /\ ledger[i].id = args[p].id
          /\ ledger' = WithoutRow(ledger, i)]_vars

\* a revert has taken an IN or OUT out of the ledger from under a later row
\* of the product, which is as the round found it
C21_Witness ==
  \E p \in Procs :
    LET transaction == getTransactionById(base.ledger, args[p].id) IN
      /\ args[p].op = "delete" /\ pc[p] = "done"
      /\ transaction # NoRow
      /\ transaction.type \in {"IN", "OUT"}
      /\ transaction.quantity # 0
      /\ Len(ledger) = 1
      /\ ledger[1] = base.ledger[2]
      /\ ledger[1].product_id = transaction.product_id

\* ------------------------------------------------- the revert of ADJUST
\* caller p reverts an ADJUST row of the ledger this round found
RevertsAdjust(p) ==
  /\ args[p].op = "delete"
  /\ getTransactionById(base.ledger, args[p].id) # NoRow
  /\ getTransactionById(base.ledger, args[p].id).type = "ADJUST"

Reported == answer.fn = "report"

\* the sum of one column over the first i rows of a result
RECURSIVE Total(_, _, _)
Total(rows, column, i) ==
  IF i = 0 THEN 0 ELSE Total(rows, column, i - 1) + rows[i][column]

\* a row the transaction list shows a profit for: calculateProfit
Qualifies(r) == r.type = "OUT" /\ StartsWithTerjual(r.notes)

\* the OUT rows that begin with the marker, of all time and of a window
Qualifying == SelectSeq(ledger, Qualifies)

QualifyingIn(startDate, endDate) ==
  SelectSeq(ledger, LAMBDA r : Qualifies(r) /\ InWindow(r, startDate, endDate))

\* C24: the figures count the OUT rows whose notes begin with 'Terjual' and
\* no others: the totals of all time and of the window are the sums over
\* those rows, and the breakdowns count as many transactions as there are
\* such rows in the window.
C24_OnlySalesCount ==
  Reported =>
    LET sales == Qualifying
        inside == QualifyingIn(answer.startDate, answer.endDate) IN
      /\ answer.stats.totalRevenue = SumRevenue(catalog, sales, Len(sales))
      /\ answer.stats.totalProfit = SumProfit(catalog, sales, Len(sales))
      /\ answer.range.totalRevenue = SumRevenue(catalog, inside, Len(inside))
      /\ answer.range.totalProfit = SumProfit(catalog, inside, Len(inside))
      /\ answer.range.transactionCount = Len(inside)
      /\ Total(answer.daily, "transaction_count", Len(answer.daily))
           = Len(inside)
      /\ Total(answer.categories, "transactionCount", Len(answer.categories))
           = Len(inside)

\* C26: the revenues, the profits and the transaction counts of the daily
\* breakdown of a window add up to the totals of the window.
C26_DailySumsToRange ==
  Reported =>
    /\ Total(answer.daily, "revenue", Len(answer.daily))
         = answer.range.totalRevenue
    /\ Total(answer.daily, "profit", Len(answer.daily))
         = answer.range.totalProfit
    /\ Total(answer.daily, "transaction_count", Len(answer.daily))
         = answer.range.transactionCount

\* a window of two days with a sale on each has been read
C26_Witness ==
  /\ Reported
  /\ Len(answer.daily) = 2
  /\ answer.endDate > answer.startDate
  /\ answer.range.totalRevenue > 0

\* the label of the bucket of a row
BucketOf(r) ==
  IF CategoryOf(catalog, r) = 0 THEN "Tanpa Kategori"
  ELSE Categories[CategoryOf(catalog, r)]

\* C27: the revenues of the buckets of the category breakdown of a window,
\* 'Tanpa Kategori' among them, add up to the total revenue of the window,
\* and every OUT row of the window that begins with the marker is counted
\* in one bucket and no other.
C27_CategoriesSumToRange ==
  Reported =>
    LET inside == QualifyingIn(answer.startDate, answer.endDate) IN
      /\ Total(answer.categories, "revenue", Len(answer.categories))
           = answer.range.totalRevenue
      /\ Total(answer.categories, "transactionCount", Len(answer.categories))
           = answer.range.transactionCount
      /\ \A i \in 1..Len(inside) :
           Cardinality({k \in 1..Len(answer.categories) :
                          answer.categories[k].category = BucketOf(inside[i])})
             = 1

\* a window with a sale of a product with a category and a sale of a
\* product without has been read
C27_Witness ==
  /\ Reported
  /\ Len(answer.categories) = 2
  /\ \E k \in 1..2 :
       /\ answer.categories[k].category = "Tanpa Kategori"
       /\ answer.categories[k].revenue > 0

\* the days of a window with an OUT row that begins with the marker
SaleDays(startDate, endDate) ==
  LET inside == QualifyingIn(startDate, endDate) IN
    {DateOf(inside[i].transaction_date) : i \in 1..Len(inside)}

\* C28: the daily breakdown of a window has one row for each day of the
\* window with a sale and none for the other days, in ascending order of
\* the day, each with a transaction count of 1 or more.
C28_OneRowPerSaleDay ==
  Reported =>
    /\ [k \in 1..Len(answer.daily) |-> answer.daily[k].date]
         = Ascending(SaleDays(answer.startDate, answer.endDate))
    /\ \A k \in 1..Len(answer.daily) : answer.daily[k].transaction_count >= 1

\* C25: the total revenue and the total profit of a window are the sums,
\* over its OUT rows that begin with the marker, of the quantity times the
\* selling price, and times the margin, that the product has at the time of
\* the read.
C25_PricesAtReadTime ==
  Reported =>
    LET inside == QualifyingIn(answer.startDate, answer.endDate) IN
      /\ answer.range.totalRevenue
           = Total([i \in 1..Len(inside) |->
                      [amount |-> inside[i].quantity
                         * catalog[inside[i].product_id].selling_price]],
                   "amount", Len(inside))
      /\ answer.range.totalProfit
           = Total([i \in 1..Len(inside) |->
                      [amount |-> inside[i].quantity
                         * (catalog[inside[i].product_id].selling_price
                            - catalog[inside[i].product_id].purchase_price)]],
                   "amount", Len(inside))

\* --------------------------------------------------------- the listing
\* getAllTransactions has returned
Listed == answer.fn = "list"

\* a row has its day within the dates given and the type given
Matches(r, dateFrom, dateTo, type) ==
  /\ dateFrom # 0 => DateOf(r.transaction_date) >= dateFrom
  /\ dateTo # 0 => DateOf(r.transaction_date) <= dateTo
  /\ type # "" => r.type = type

\* C23: getAllTransactions returns the newest rows that match its filters,
\* 100 of them at most: each returned row is a row of the ledger that
\* matches, none is returned twice, all matching rows are returned when
\* they are 100 or fewer and 100 otherwise, the rows come newest first, and
\* no matching row left out is newer than a returned one.
C23_NewestMatching ==
  Listed =>
    LET rows == answer.rows
        ids == {rows[k].id : k \in 1..Len(rows)}
        matching ==
          SelectSeq(ledger, LAMBDA r :
            Matches(r, answer.dateFrom, answer.dateTo, answer.type)) IN
      /\ Len(rows) <= 100
      /\ Len(rows) = IF Len(matching) <= 100 THEN Len(matching) ELSE 100
      /\ Cardinality(ids) = Len(rows)
      /\ \A k \in 1..Len(rows) :
           \E i \in 1..Len(matching) : matching[i] = rows[k]
      /\ \A k \in 1..(Len(rows) - 1) :
           rows[k].transaction_date >= rows[k + 1].transaction_date
      /\ \A i \in 1..Len(matching) :
           matching[i].id \notin ids =>
             \A k \in 1..Len(rows) :
               matching[i].transaction_date <= rows[k].transaction_date

\* more than 100 rows match and 100 are returned, a row recorded since
\* among them
C23_Witness ==
  /\ Listed
  /\ Len(answer.rows) = 100
  /\ Len(SelectSeq(ledger, LAMBDA r :
           Matches(r, answer.dateFrom, answer.dateTo, answer.type))) > 100
  /\ answer.dateFrom # 0
  /\ \E k \in 1..Len(answer.rows) : answer.rows[k].id >= ListLimit

\* ------------------------------------------------------- the readers
\* C22: the queries and the aggregations change nothing: a step that hands
\* out the result of a listing, of the financial figures or of the rows of
\* a product leaves the ledger and every current_stock as they were, and a
\* step that changes either is a record or a revert.
C22_ReadersChangeNothing ==
  [][/\ (\/ answer' # answer /\ answer'.fn # "none"
         \/ seen' # seen /\ seen' # NoRead) =>
          (ledger' = ledger /\ current_stock' = current_stock)
     /\ (ledger' # ledger \/ current_stock' # current_stock) =>
          \E a \in ListArgs : Call(a)]_vars

\* the rows of a product, a listing and so the figures have been read of a
\* ledger with rows recorded since the start
C22_Witness ==
  /\ Listed
  /\ Len(answer.rows) > 0
  /\ seen # NoRead
  /\ Len(ledger) > Len(History)

\* ------------------------------------------------------ App start-up
\* both events of the start-up have occurred
BothReady == app.isDbReady /\ app.isNavigationReady

\* C29: setupNotificationHandler is called only after the database is
\* initialised and the navigation container is ready, in whichever order the
\* two occur, and once both have occurred it is eventually called.
C29_HandlerAfterBoth ==
  /\ [](app.handlerCalls > 0 =>
          /\ BothReady
          /\ Len(app.events) = 2
          /\ app.rendered.isNavigationReady)
  /\ (BothReady ~> app.handlerCalls > 0)

\* the database was initialised first, the navigation container became
\* ready later, and the handler has been set up
C29_Witness ==
  /\ app.events = <<"database", "navigation">>
  /\ app.handlerCalls = 1

====
